---- MODULE Spec2Model ----
(***************************************************************************)
(* Model of the quality-control-service REST API (restapi/models.py,       *)
(* restapi/serializers.py, restapi/views.py).                              *)
(*                                                                         *)
(* db    the relational store: one set of rows per model class, plus the   *)
(*       auto-increment counter of each table (seq).  created_at columns   *)
(*       carry no behaviour and are left out of the rows.                  *)
(* last  the request that was served last: endpoint, path arguments,       *)
(*       request body, and the response (status, error keys, body).        *)
(* pending  per client, the request a handler is in the middle of: the     *)
(*       handler has looked its root row up and has not yet written.       *)
(*                                                                         *)
(* A JSON object / validated_data dict is a record with a field "keys":    *)
(* the set of keys that are present.  Fields whose key is absent hold a    *)
(* fixed filler value, so that `"k" in d`, d.get(k, default) and           *)
(* d.pop(k, default) can be told apart from a present key.                 *)
(***************************************************************************)
EXTENDS Integers, Sequences, FiniteSets, TLC

VARIABLES db, last, pending

vars == <<db, last, pending>>

(***************************************************************************)
(* Bounds of the model.                                                    *)
(***************************************************************************)
\* largest id a table may hand out, per table
MaxClinicId == 2
MaxDepartmentId == 3
MaxEquipmentId == 3
MaxDetailId == 2
MaxParameterId == 3
MaxValueId == 4
\* equipment rows in the runs of the equipment endpoints
MaxEquipments == 2
\* clients with a request in flight at the same time
MaxClients == 2

Tables == {"clinic", "department", "equipments", "details", "parameters", "values"}

MaxId ==
  [clinic |-> MaxClinicId, department |-> MaxDepartmentId,
   equipments |-> MaxEquipmentId, details |-> MaxDetailId,
   parameters |-> MaxParameterId, values |-> MaxValueId]

(***************************************************************************)
(* Dict helpers.                                                           *)
(***************************************************************************)
Has(d, k) == k \in d.keys

\* d.get(k, default) / d.pop(k, default)
Get(d, k, default) == IF Has(d, k) THEN d[k] ELSE default

\* Python truthiness of a list
Truthy(list) == Len(list) > 0

Range(s) == {s[i] : i \in 1..Len(s)}

(***************************************************************************)
(* models.py: rows.                                                        *)
(***************************************************************************)
ClinicRow(id, name) == [id |-> id, name |-> name]

DepartmentRow(id, name, is_active, clinic) ==
  [id |-> id, name |-> name, is_active |-> is_active, clinic |-> clinic]

EquipmentsRow(id, equipment_name, dep, is_active, is_deleted) ==
  [id |-> id, equipment_name |-> equipment_name, dep |-> dep,
   is_active |-> is_active, is_deleted |-> is_deleted]

EquipmentDetailsRow(id, equipment, equipment_num, make, model, is_active) ==
  [id |-> id, equipment |-> equipment, equipment_num |-> equipment_num,
   make |-> make, model |-> model, is_active |-> is_active]

ParametersRow(id, equipment, parameter_name, is_active) ==
  [id |-> id, equipment |-> equipment, parameter_name |-> parameter_name,
   is_active |-> is_active]

ParameterValuesRow(id, parameter, content, is_deleted) ==
  [id |-> id, parameter |-> parameter, content |-> content,
   is_deleted |-> is_deleted]

EmptyDb ==
  [clinic |-> {}, department |-> {}, equipments |-> {}, details |-> {},
   parameters |-> {}, values |-> {},
   seq |-> [t \in Tables |-> 1]]

\* the rows of a store, without the auto-increment counters
Rows(d) == [t \in Tables |-> d[t]]

\* a table that hands out the lowest id no row holds
NextIdLowestFree(d, t) ==
  CHOOSE n \in 1..(Cardinality(d[t]) + 1) :
    /\ n \notin {r.id : r \in d[t]}
    /\ \A m \in 1..(n - 1) : m \in {r.id : r \in d[t]}

\* Model.objects.create(...): the row gets the table's next id
NextId(d, t) == d.seq[t]

Insert(d, t, row) ==
  [d EXCEPT ![t] = @ \cup {row}, !.seq[t] = @ + 1]

\* a delete that takes the department rows and leaves what hangs below them
DeleteDepartmentsOnly(d, deps) == [d EXCEPT !.department = @ \ deps]

\* on_delete=models.CASCADE, from Department downwards
CascadeDeleteDepartments(d, deps) ==
  LET depIds == {x.id : x \in deps}
      eqs == {e \in d.equipments : e.dep \in depIds}
      eqIds == {e.id : e \in eqs}
      dets == {x \in d.details : x.equipment \in eqIds}
      pars == {p \in d.parameters : p.equipment \in eqIds}
      parIds == {p.id : p \in pars}
      vals == {v \in d.values : v.parameter \in parIds}
  IN [d EXCEPT !.department = @ \ deps,
               !.equipments = @ \ eqs,
               !.details = @ \ dets,
               !.parameters = @ \ pars,
               !.values = @ \ vals]

(***************************************************************************)
(* @transaction.atomic: a block that an exception leaves puts the store    *)
(* back as it was when the block was entered (the id counters with it, as  *)
(* they are kept in a table of the same database).  undone counts the rows *)
(* the block had inserted by then.                                         *)
(***************************************************************************)
Inserted(before, after) ==
  LET n(t) == Cardinality(after[t] \ before[t])
  IN n("clinic") + n("department") + n("equipments") + n("details")
       + n("parameters") + n("values")

\* the rows of before whose primary key no row of after holds
Removed(before, after) ==
  LET n(t) == Cardinality({r.id : r \in before[t]} \ {r.id : r \in after[t]})
  IN n("clinic") + n("department") + n("equipments") + n("details")
       + n("parameters") + n("values")

Atomic(before, res) ==
  IF res.ok THEN res
  ELSE [res EXCEPT !.db = before,
                   !.undone = @ + Inserted(before, res.db)]

Ok(d, inst) ==
  [ok |-> TRUE, err |-> {}, db |-> d, instance |-> inst, undone |-> 0]

\* raise serializers.ValidationError({key: ...})
Fail(d, key) ==
  [ok |-> FALSE, err |-> {key}, db |-> d, instance |-> 0, undone |-> 0]

(***************************************************************************)
(* serializers.py: EquipmentSerializer.create                              *)
(***************************************************************************)
RECURSIVE CreateEquipmentDetails(_, _, _, _)
\* for equipment_detail in equipment_details_data: EquipmentDetails.objects.create
CreateEquipmentDetails(d, equipment, details_data, i) ==
  IF i > Len(details_data) THEN d
  ELSE LET x == details_data[i]
           row == EquipmentDetailsRow(NextId(d, "details"), equipment,
                    x.equipment_num, x.make, x.model, Get(x, "is_active", TRUE))
       IN CreateEquipmentDetails(Insert(d, "details", row), equipment,
                                 details_data, i + 1)

RECURSIVE CreateParameterValues(_, _, _, _)
\* for parameter_value in parameter_values_data: ParameterValues.objects.create
CreateParameterValues(d, parameter, values_data, i) ==
  IF i > Len(values_data) THEN d
  ELSE LET row == ParameterValuesRow(NextId(d, "values"), parameter,
                    values_data[i].content, FALSE)
       IN CreateParameterValues(Insert(d, "values", row), parameter,
                                values_data, i + 1)

\* a create that does not look at `format`
FormatAliasIgnored(parameter_data) ==
  Get(parameter_data, "parameter_values", <<>>)

\* the values a create stores for one parameter entry: the list, or the
\* `format` alias turned into a one-element list
FormatAlias(parameter_data) ==
  LET parameter_values_data == Get(parameter_data, "parameter_values", <<>>)
  IN IF ~Truthy(parameter_values_data) /\ Has(parameter_data, "format")
     THEN <<[keys |-> {"content"}, content |-> parameter_data.format]>>
     ELSE parameter_values_data

\* the check of lines 95-98
MissingValues(parameter_data) ==
  /\ ~Truthy(Get(parameter_data, "parameter_values", <<>>))
  /\ ~Has(parameter_data, "format")

RECURSIVE CreateParameters(_, _, _, _)
\* for parameter_data in parameters_data: ... ; stops at the first raise
CreateParameters(d, equipment, parameters_data, i) ==
  IF i > Len(parameters_data) THEN Ok(d, equipment)
  ELSE LET parameter_data == parameters_data[i]
       IN IF MissingValues(parameter_data)
          THEN Fail(d, "parameter_values")
          ELSE LET pid == NextId(d, "parameters")
                   row == ParametersRow(pid, equipment,
                            parameter_data.parameter_name,
                            Get(parameter_data, "is_active", TRUE))
                   d1 == Insert(d, "parameters", row)
                   d2 == CreateParameterValues(d1, pid,
                            FormatAlias(parameter_data), 1)
               IN CreateParameters(d2, equipment, parameters_data, i + 1)

\* the body of create, without the decorator
EquipmentCreateBody(d, validated_data, department) ==
  LET equipment_details_data == Get(validated_data, "equipment_details", <<>>)
      parameters_data == Get(validated_data, "parameters", <<>>)
      eid == NextId(d, "equipments")
      row == EquipmentsRow(eid, validated_data.equipment_name, department,
               Get(validated_data, "is_active", TRUE), FALSE)
      d1 == Insert(d, "equipments", row)
      d2 == CreateEquipmentDetails(d1, eid, equipment_details_data, 1)
  IN CreateParameters(d2, eid, parameters_data, 1)

\* create without the @transaction.atomic decorator
EquipmentSerializer_create_NoAtomic(d, validated_data, department) ==
  EquipmentCreateBody(d, validated_data, department)

EquipmentSerializer_create(d, validated_data, department) ==
  Atomic(d, EquipmentCreateBody(d, validated_data, department))

(***************************************************************************)
(* serializers.py: EquipmentSerializer.update (append only)                *)
(***************************************************************************)
\* instance.save(): the row with the instance's primary key is rewritten
\* with every field of the in-memory instance
Save(d, t, instance) ==
  [d EXCEPT ![t] = {r \in @ : r.id # instance.id} \cup {instance}]

RECURSIVE AppendParameterValuesOverwrite(_, _, _, _)
\* an update that replaces the values of a parameter by the supplied ones
AppendParameterValuesOverwrite(d, instance, parameters_data, i) ==
  IF i > Len(parameters_data) THEN Ok(d, instance.id)
  ELSE LET parameter_data == parameters_data[i]
           param_id == Get(parameter_data, "id", 0)
           parameter_values_data == Get(parameter_data, "parameter_values", <<>>)
           found == {p \in d.parameters :
                       p.id = param_id /\ p.equipment = instance.id}
           cleared == [d EXCEPT !.values = {v \in @ : v.parameter # param_id}]
       IN IF param_id = 0 THEN Fail(d, "parameter_id")
          ELSE IF found = {} THEN Fail(d, "parameter_id")
          ELSE IF ~Truthy(parameter_values_data)
               THEN Fail(d, "parameter_values")
          ELSE AppendParameterValuesOverwrite(
                 CreateParameterValues(cleared, param_id, parameter_values_data, 1),
                 instance, parameters_data, i + 1)

RECURSIVE AppendParameterValuesAnyOwner(_, _, _, _)
\* an update that looks the parameter up by id alone
AppendParameterValuesAnyOwner(d, instance, parameters_data, i) ==
  IF i > Len(parameters_data) THEN Ok(d, instance.id)
  ELSE LET parameter_data == parameters_data[i]
           param_id == Get(parameter_data, "id", 0)
           parameter_values_data == Get(parameter_data, "parameter_values", <<>>)
           found == {p \in d.parameters : p.id = param_id}
       IN IF param_id = 0 THEN Fail(d, "parameter_id")
          ELSE IF found = {} THEN Fail(d, "parameter_id")
          ELSE IF ~Truthy(parameter_values_data)
               THEN Fail(d, "parameter_values")
          ELSE AppendParameterValuesAnyOwner(
                 CreateParameterValues(d, param_id, parameter_values_data, 1),
                 instance, parameters_data, i + 1)

RECURSIVE AppendParameterValuesRename(_, _, _, _)
\* an update that also writes the entry's parameter_name and is_active to
\* the parameter row
AppendParameterValuesRename(d, instance, parameters_data, i) ==
  IF i > Len(parameters_data) THEN Ok(d, instance.id)
  ELSE LET parameter_data == parameters_data[i]
           param_id == Get(parameter_data, "id", 0)
           parameter_values_data == Get(parameter_data, "parameter_values", <<>>)
           found == {p \in d.parameters :
                       p.id = param_id /\ p.equipment = instance.id}
       IN IF param_id = 0 THEN Fail(d, "parameter_id")
          ELSE IF found = {} THEN Fail(d, "parameter_id")
          ELSE IF ~Truthy(parameter_values_data)
               THEN Fail(d, "parameter_values")
          ELSE LET parameter == CHOOSE p \in found : TRUE
                   renamed == [parameter EXCEPT
                                 !.parameter_name =
                                    Get(parameter_data, "parameter_name", @),
                                 !.is_active =
                                    Get(parameter_data, "is_active", @)]
               IN AppendParameterValuesRename(
                    CreateParameterValues(Save(d, "parameters", renamed),
                                          param_id, parameter_values_data, 1),
                    instance, parameters_data, i + 1)

RECURSIVE AppendParameterValues(_, _, _, _)
\* for parameter_data in parameters_data: the three validations, then append
AppendParameterValues(d, instance, parameters_data, i) ==
  IF i > Len(parameters_data) THEN Ok(d, instance.id)
  ELSE LET parameter_data == parameters_data[i]
           param_id == Get(parameter_data, "id", 0)
           parameter_values_data == Get(parameter_data, "parameter_values", <<>>)
           found == {p \in d.parameters :
                       p.id = param_id /\ p.equipment = instance.id}
       IN IF param_id = 0 THEN Fail(d, "parameter_id")
          ELSE IF found = {} THEN Fail(d, "parameter_id")
          ELSE IF ~Truthy(parameter_values_data)
               THEN Fail(d, "parameter_values")
          ELSE AppendParameterValues(
                 CreateParameterValues(d, param_id, parameter_values_data, 1),
                 instance, parameters_data, i + 1)

EquipmentUpdateBody(d, instance, validated_data) ==
  LET equipment_details_data == Get(validated_data, "equipment_details", <<>>)
      parameters_data == Get(validated_data, "parameters", <<>>)
      saved == [instance EXCEPT
                  !.equipment_name =
                     Get(validated_data, "equipment_name", instance.equipment_name),
                  !.is_active =
                     Get(validated_data, "is_active", instance.is_active)]
      d1 == Save(d, "equipments", saved)
      d2 == CreateEquipmentDetails(d1, instance.id, equipment_details_data, 1)
  IN AppendParameterValues(d2, saved, parameters_data, 1)

\* update without the @transaction.atomic decorator
EquipmentSerializer_update_NoAtomic(d, instance, validated_data) ==
  EquipmentUpdateBody(d, instance, validated_data)

EquipmentSerializer_update(d, instance, validated_data) ==
  Atomic(d, EquipmentUpdateBody(d, instance, validated_data))

(***************************************************************************)
(* serializers.py: ClinicSerializer.create / update                        *)
(***************************************************************************)
RECURSIVE CreateEquipments(_, _, _, _)
\* for equipment_data in equipments_data: EquipmentSerializer().create(...)
CreateEquipments(d, department, equipments_data, i) ==
  IF i > Len(equipments_data) THEN Ok(d, department)
  ELSE LET r == EquipmentSerializer_create(d, equipments_data[i], department)
       IN IF r.ok THEN CreateEquipments(r.db, department, equipments_data, i + 1)
          ELSE r

RECURSIVE CreateDepartments(_, _, _, _)
\* for department_data in departments_data: Department.objects.create, then
\* its equipments
CreateDepartments(d, clinic, departments_data, i) ==
  IF i > Len(departments_data) THEN Ok(d, clinic)
  ELSE LET department_data == departments_data[i]
           equipments_data == Get(department_data, "equipments", <<>>)
           did == NextId(d, "department")
           row == DepartmentRow(did, department_data.name,
                    Get(department_data, "is_active", TRUE), clinic)
           r == CreateEquipments(Insert(d, "department", row), did,
                                 equipments_data, 1)
       IN IF r.ok THEN CreateDepartments(r.db, clinic, departments_data, i + 1)
          ELSE r

ClinicCreateBody(d, validated_data) ==
  LET departments_data == Get(validated_data, "department", <<>>)
      cid == NextId(d, "clinic")
      d1 == Insert(d, "clinic", ClinicRow(cid, validated_data.name))
  IN CreateDepartments(d1, cid, departments_data, 1)

\* create without the @transaction.atomic decorator
ClinicSerializer_create_NoAtomic(d, validated_data) ==
  ClinicCreateBody(d, validated_data)

ClinicSerializer_create(d, validated_data) ==
  Atomic(d, ClinicCreateBody(d, validated_data))

\* an update that deletes the departments of every clinic
ClinicUpdateBodyDeleteAll(d, instance, validated_data) ==
  LET departments_data == Get(validated_data, "department", <<>>)
      d1 == CascadeDeleteDepartments(d, d.department)
      saved == [instance EXCEPT
                  !.name = Get(validated_data, "name", instance.name)]
      d2 == Save(d1, "clinic", saved)
  IN CreateDepartments(d2, instance.id, departments_data, 1)

\* an update that leaves the departments alone when the body has no
\* department key
ClinicUpdateBodyKeepWhenAbsent(d, instance, validated_data) ==
  LET departments_data == Get(validated_data, "department", <<>>)
      d1 == IF Has(validated_data, "department")
            THEN CascadeDeleteDepartments(d,
                   {x \in d.department : x.clinic = instance.id})
            ELSE d
      saved == [instance EXCEPT
                  !.name = Get(validated_data, "name", instance.name)]
      d2 == Save(d1, "clinic", saved)
  IN CreateDepartments(d2, instance.id, departments_data, 1)

ClinicUpdateBody(d, instance, validated_data) ==
  LET departments_data == Get(validated_data, "department", <<>>)
      d1 == CascadeDeleteDepartments(d,
              {x \in d.department : x.clinic = instance.id})
      saved == [instance EXCEPT
                  !.name = Get(validated_data, "name", instance.name)]
      d2 == Save(d1, "clinic", saved)
  IN CreateDepartments(d2, instance.id, departments_data, 1)

\* update without the @transaction.atomic decorator
ClinicSerializer_update_NoAtomic(d, instance, validated_data) ==
  ClinicUpdateBody(d, instance, validated_data)

ClinicSerializer_update(d, instance, validated_data) ==
  Atomic(d, ClinicUpdateBody(d, instance, validated_data))

(***************************************************************************)
(* serializers.py: field validation (serializer.is_valid).  A key that the  *)
(* serializer class requires and the data lacks is an error unless the     *)
(* root serializer is partial.  The result is the set of field names that  *)
(* occur in serializer.errors, at any depth.                               *)
(***************************************************************************)
Required(d, fields, partial) == {k \in fields : ~partial /\ ~Has(d, k)}

\* the errors of a nested list field: the field's own name and the names
\* inside, when an entry has errors
Nested(field, errors) == IF errors = {} THEN {} ELSE {field} \cup errors

ParameterValueErrors(v, partial) == Required(v, {"content"}, partial)

EquipmentDetailErrors(x, partial) ==
  Required(x, {"equipment_num", "make", "model"}, partial)

ParameterErrors(p, partial) ==
  Required(p, {"parameter_name"}, partial)
  \cup Nested("parameter_values",
         UNION {ParameterValueErrors(v, partial) :
                  v \in Range(Get(p, "parameter_values", <<>>))})

EquipmentErrors(e, partial) ==
  Required(e, {"equipment_name"}, partial)
  \cup Nested("equipment_details",
         UNION {EquipmentDetailErrors(x, partial) :
                  x \in Range(Get(e, "equipment_details", <<>>))})
  \cup Nested("parameters",
         UNION {ParameterErrors(q, partial) :
                  q \in Range(Get(e, "parameters", <<>>))})

DepartmentErrors(x, partial) ==
  Required(x, {"name"}, partial)
  \cup Nested("equipments",
         UNION {EquipmentErrors(e, partial) :
                  e \in Range(Get(x, "equipments", <<>>))})

ClinicErrors(c, partial) ==
  Required(c, {"name"}, partial)
  \cup Nested("department",
         UNION {DepartmentErrors(x, partial) :
                  x \in Range(Get(c, "department", <<>>))})

(***************************************************************************)
(* serializers.py: read serializers.  Child lists come in primary-key      *)
(* order (no Meta.ordering).                                               *)
(***************************************************************************)
RECURSIVE ById(_)
ById(S) ==
  IF S = {} THEN <<>>
  ELSE LET m == CHOOSE x \in S : \A y \in S : x.id <= y.id
       IN <<m>> \o ById(S \ {m})

Map(F(_), s) == [i \in 1..Len(s) |-> F(s[i])]

ParameterValueReadSerializer(d, v) ==
  [id |-> v.id, content |-> v.content, is_deleted |-> v.is_deleted]

ParameterReadSerializer(d, p) ==
  LET val(v) == ParameterValueReadSerializer(d, v)
  IN [id |-> p.id, parameter_name |-> p.parameter_name,
      is_active |-> p.is_active,
      parameter_values |->
         Map(val, ById({v \in d.values : v.parameter = p.id}))]

EquipmentDetailReadSerializer(d, x) ==
  [id |-> x.id, equipment_num |-> x.equipment_num, make |-> x.make,
   model |-> x.model, is_active |-> x.is_active]

EquipmentReadSerializer(d, e) ==
  LET det(x) == EquipmentDetailReadSerializer(d, x)
      par(p) == ParameterReadSerializer(d, p)
  IN [id |-> e.id, equipment_name |-> e.equipment_name,
      equipment_details |->
         Map(det, ById({x \in d.details : x.equipment = e.id})),
      parameters |->
         Map(par, ById({p \in d.parameters : p.equipment = e.id}))]

\* a filter on the other flag
get_equipments_active(d, obj) ==
  {e \in d.equipments : e.dep = obj.id /\ e.is_active = TRUE}

\* obj.equipments_set.filter(is_deleted=False)
get_equipments(d, obj) ==
  {e \in d.equipments : e.dep = obj.id /\ e.is_deleted = FALSE}

DepartmentReadSerializer(d, obj) ==
  LET eq(e) == EquipmentReadSerializer(d, e)
  IN [id |-> obj.id, name |-> obj.name, is_active |-> obj.is_active,
      equipments |-> Map(eq, ById(get_equipments(d, obj)))]

ClinicReadSerializer(d, c) ==
  LET dep(x) == DepartmentReadSerializer(d, x)
  IN [id |-> c.id, name |-> c.name,
      department |->
         Map(dep, ById({x \in d.department : x.clinic = c.id}))]

(***************************************************************************)
(* EquipmentSerializer(instance).data, the body of the equipment create    *)
(* and update responses.  A field is read from the attribute of the model  *)
(* instance that its source names; a field that is not required and whose  *)
(* attribute the instance lacks is skipped.  The reverse accessors of      *)
(* Equipments are equipmentdetails_set and parameters_set (models.py gives *)
(* these foreign keys no related_name).                                    *)
(***************************************************************************)
EquipmentsAttributes ==
  {"id", "equipment_name", "dep", "is_active", "is_deleted", "created_at",
   "equipmentdetails_set", "parameters_set"}

ParameterSerializer_data(d, p) == ParameterReadSerializer(d, p)

EquipmentSerializer_data(d, e) ==
  LET par(p) == ParameterSerializer_data(d, p)
      det(x) == [equipment_num |-> x.equipment_num, make |-> x.make,
                 model |-> x.model, is_active |-> x.is_active]
      shown == {"id", "equipment_name", "is_active", "equipment_details",
                "parameters"} \cap EquipmentsAttributes
  IN [keys |-> shown,
      id |-> e.id, equipment_name |-> e.equipment_name,
      is_active |-> e.is_active,
      equipment_details |->
         IF "equipment_details" \in shown
         THEN Map(det, ById({x \in d.details : x.equipment = e.id}))
         ELSE <<>>,
      parameters |->
         IF "parameters" \in shown
         THEN Map(par, ById({p \in d.parameters : p.equipment = e.id}))
         ELSE <<>>]

(***************************************************************************)
(* Request bodies.                                                         *)
(***************************************************************************)
Field(keys, k, v, filler) == IF k \in keys THEN v ELSE filler

ValueData(content) == [keys |-> {"content"}, content |-> content]

ParameterData(keys, id, parameter_name, is_active, parameter_values, format) ==
  [keys |-> keys,
   id |-> Field(keys, "id", id, 0),
   parameter_name |-> Field(keys, "parameter_name", parameter_name, ""),
   is_active |-> Field(keys, "is_active", is_active, FALSE),
   parameter_values |-> Field(keys, "parameter_values", parameter_values, <<>>),
   format |-> Field(keys, "format", format, "")]

DetailData(keys, equipment_num, is_active) ==
  [keys |-> keys \cup {"equipment_num", "make", "model"},
   equipment_num |-> equipment_num, make |-> "mk", model |-> "md",
   is_active |-> Field(keys, "is_active", is_active, FALSE)]

EquipmentData(keys, equipment_name, is_active, equipment_details, parameters) ==
  [keys |-> keys,
   equipment_name |-> Field(keys, "equipment_name", equipment_name, ""),
   is_active |-> Field(keys, "is_active", is_active, FALSE),
   equipment_details |-> Field(keys, "equipment_details", equipment_details, <<>>),
   parameters |-> Field(keys, "parameters", parameters, <<>>)]

DepartmentData(keys, name, is_active, equipments) ==
  [keys |-> keys,
   name |-> Field(keys, "name", name, ""),
   is_active |-> Field(keys, "is_active", is_active, FALSE),
   equipments |-> Field(keys, "equipments", equipments, <<>>)]

ClinicData(keys, name, department) ==
  [keys |-> keys,
   name |-> Field(keys, "name", name, ""),
   department |-> Field(keys, "department", department, <<>>)]

NoPayload == [keys |-> {}]
NoBody == [keys |-> {}]

(***************************************************************************)
(* views.py: the responses.                                                *)
(***************************************************************************)
Request(op, clinic_id, department_id, equipment_id, payload) ==
  [op |-> op, clinic_id |-> clinic_id, department_id |-> department_id,
   equipment_id |-> equipment_id, payload |-> payload]

\* again: the request repeats the one served just before it, which succeeded
\* undone: the rows the request had inserted when its transaction was aborted
\* removed: the rows of the store that the request deleted
Answer(req, status, err, body, undone) ==
  [op |-> req.op, clinic_id |-> req.clinic_id,
   department_id |-> req.department_id, equipment_id |-> req.equipment_id,
   payload |-> req.payload, status |-> status, err |-> err, body |-> body,
   again |-> /\ last.op = req.op
             /\ last.status = 200
             /\ last.clinic_id = req.clinic_id
             /\ last.department_id = req.department_id
             /\ last.equipment_id = req.equipment_id
             /\ last.payload = req.payload,
   undone |-> undone,
   removed |-> Removed(db, db')]

Response(req, status, err, body) == Answer(req, status, err, body, 0)

\* the id counters stay within the bounds of the model
WithinBounds(d) == \A t \in Tables : d.seq[t] <= MaxId[t] + 1

\* raise NotFound(...): nothing was written
NotFound(req) ==
  /\ db' = db
  /\ last' = Response(req, 404, {"detail"}, NoBody)

\* except ValidationError as ve: Response({"error": ve.detail}, status=400),
\* raised by is_valid(raise_exception=True)
Invalid(req, errors) ==
  /\ db' = db
  /\ last' = Response(req, 400, errors, NoBody)

\* the same handler, for a ValidationError raised inside serializer.save()
Rejected(req, r) ==
  /\ db' = r.db
  /\ last' = Answer(req, 400, r.err, NoBody, r.undone)

(***************************************************************************)
(* views.py: the endpoints.                                                *)
(***************************************************************************)
\* POST /api/clinics
ClinicCreateAPIView_post(data) ==
  LET req == Request("ClinicCreate", 0, 0, 0, data)
      errors == ClinicErrors(data, FALSE)
      r == ClinicSerializer_create(db, data)
  IN IF errors # {} THEN Invalid(req, errors)
     ELSE /\ WithinBounds(r.db)
          /\ IF r.ok
             THEN /\ db' = r.db
                  /\ LET clinic == CHOOSE c \in r.db.clinic : c.id = r.instance
                     IN last' = Response(req, 201, {},
                                  ClinicReadSerializer(r.db, clinic))
             ELSE Rejected(req, r)

\* PUT /api/clinics/{clinic_id}/
ClinicUpdateAPIView_put(clinic_id, data) ==
  LET req == Request("ClinicUpdate", clinic_id, 0, 0, data)
      found == {c \in db.clinic : c.id = clinic_id}
  IN IF found = {} THEN NotFound(req)
     ELSE LET clinic == CHOOSE c \in found : TRUE
              errors == ClinicErrors(data, FALSE)
              r == ClinicSerializer_update(db, clinic, data)
          IN IF errors # {} THEN Invalid(req, errors)
             ELSE /\ WithinBounds(r.db)
                  /\ IF r.ok
                     THEN /\ db' = r.db
                          /\ LET updated == CHOOSE c \in r.db.clinic :
                                              c.id = clinic_id
                             IN last' = Response(req, 200, {},
                                          ClinicReadSerializer(r.db, updated))
                     ELSE Rejected(req, r)

\* GET /api/get_clinic/{clinic_id}/
GetClinicView_get(clinic_id) ==
  LET req == Request("GetClinic", clinic_id, 0, 0, NoPayload)
      found == {c \in db.clinic : c.id = clinic_id}
  IN IF found = {} THEN NotFound(req)
     ELSE /\ db' = db
          /\ last' = Response(req, 200, {},
                       ClinicReadSerializer(db, CHOOSE c \in found : TRUE))

\* POST /api/departments/{department_id}/equipments/
DepartmentEquipmentCreateAPIView_post(department_id, data) ==
  LET req == Request("EquipmentCreate", 0, department_id, 0, data)
      found == {x \in db.department : x.id = department_id}
  IN IF found = {} THEN NotFound(req)
     ELSE LET errors == EquipmentErrors(data, FALSE)
              r == EquipmentSerializer_create(db, data, department_id)
          IN IF errors # {} THEN Invalid(req, errors)
             ELSE /\ WithinBounds(r.db)
                  /\ IF r.ok
                     THEN /\ db' = r.db
                          /\ LET equipment == CHOOSE e \in r.db.equipments :
                                                e.id = r.instance
                             IN last' = Response(req, 201, {},
                                          EquipmentSerializer_data(r.db, equipment))
                     ELSE Rejected(req, r)

\* Equipments.objects.get(id=equipment_id): a lookup that leaves the
\* department out
Equipments_objects_get_by_id(d, equipment_id, department_id) ==
  {e \in d.equipments : e.id = equipment_id}

\* Equipments.objects.get(id=equipment_id, dep_id=department_id): the rows
\* that match; none raises Equipments.DoesNotExist
Equipments_objects_get(d, equipment_id, department_id) ==
  {e \in d.equipments : e.id = equipment_id /\ e.dep = department_id}

\* the same lookup without is_deleted=False
Equipments_objects_get_deleted_too(d, equipment_id, department_id) ==
  {e \in d.equipments : e.id = equipment_id /\ e.dep = department_id}

\* Equipments.objects.get(id=equipment_id, dep_id=department_id, is_deleted=False)
Equipments_objects_get_undeleted(d, equipment_id, department_id) ==
  {e \in d.equipments :
     /\ e.id = equipment_id
     /\ e.dep = department_id
     /\ e.is_deleted = FALSE}

\* PUT, after the lookup: is_valid, serializer.save(), the response built
\* from the instance that update() returns
DepartmentEquipmentUpdateAPIView_put_save(req, equipment) ==
  LET errors == EquipmentErrors(req.payload, FALSE)
      r == EquipmentSerializer_update(db, equipment, req.payload)
  IN IF errors # {} THEN Invalid(req, errors)
     ELSE /\ WithinBounds(r.db)
          /\ IF r.ok
             THEN /\ db' = r.db
                  /\ LET updated == CHOOSE e \in r.db.equipments :
                                      e.id = equipment.id
                     IN last' = Response(req, 200, {},
                                  EquipmentSerializer_data(r.db, updated))
             ELSE Rejected(req, r)

\* PUT /api/departments/{department_id}/equipments/{equipment_id}/
DepartmentEquipmentUpdateAPIView_put(department_id, equipment_id, data) ==
  LET req == Request("EquipmentUpdate", 0, department_id, equipment_id, data)
      found == Equipments_objects_get(db, equipment_id, department_id)
  IN IF found = {} THEN NotFound(req)
     ELSE DepartmentEquipmentUpdateAPIView_put_save(req, CHOOSE e \in found : TRUE)

\* PATCH inactive, after the lookup: equipment.is_active = False; equipment.save()
EquipmentInactiveAPIView_patch_save(req, equipment) ==
  /\ db' = Save(db, "equipments", [equipment EXCEPT !.is_active = FALSE])
  /\ last' = Response(req, 200, {}, NoBody)

\* PATCH /api/departments/{department_id}/equipments/{equipment_id}/inactive/
EquipmentInactiveAPIView_patch(department_id, equipment_id) ==
  LET req == Request("EquipmentInactive", 0, department_id, equipment_id,
                     NoPayload)
      found == Equipments_objects_get(db, equipment_id, department_id)
  IN IF found = {} THEN NotFound(req)
     ELSE EquipmentInactiveAPIView_patch_save(req, CHOOSE e \in found : TRUE)

\* PATCH delete, after the lookup: both flags set, equipment.save()
EquipmentSoftDeleteAPIView_patch_save(req, equipment) ==
  /\ db' = Save(db, "equipments",
             [equipment EXCEPT !.is_deleted = TRUE, !.is_active = FALSE])
  /\ last' = Response(req, 200, {}, NoBody)

\* PATCH /api/departments/{department_id}/equipments/{equipment_id}/delete/
EquipmentSoftDeleteAPIView_patch(department_id, equipment_id) ==
  LET req == Request("EquipmentSoftDelete", 0, department_id, equipment_id,
                     NoPayload)
      found == Equipments_objects_get_undeleted(db, equipment_id, department_id)
  IN IF found = {} THEN NotFound(req)
     ELSE EquipmentSoftDeleteAPIView_patch_save(req, CHOOSE e \in found : TRUE)

\* DELETE on the same path: return self.patch(request, department_id, equipment_id)
EquipmentSoftDeleteAPIView_delete(department_id, equipment_id) ==
  EquipmentSoftDeleteAPIView_patch(department_id, equipment_id)

(***************************************************************************)
(* The request bodies the model sends.                                     *)
(***************************************************************************)
\* parameter entries of a create: with values, with the format alias, with
\* both, with an empty list and the alias, and the two malformed shapes
PV == ParameterData({"parameter_name", "parameter_values"}, 0, "p1", FALSE,
                    <<ValueData("v1")>>, "")
PVV == ParameterData({"parameter_name", "parameter_values", "is_active"}, 0,
                     "p2", FALSE, <<ValueData("v1"), ValueData("v2")>>, "")
PF == ParameterData({"parameter_name", "format"}, 0, "p1", FALSE, <<>>, "v2")
PEF == ParameterData({"parameter_name", "parameter_values", "format"}, 0,
                     "p1", FALSE, <<>>, "v2")
PB == ParameterData({"parameter_name", "parameter_values", "format"}, 0,
                    "p1", FALSE, <<ValueData("v1")>>, "v2")
PN == ParameterData({"parameter_name"}, 0, "p1", FALSE, <<>>, "")
PE == ParameterData({"parameter_name", "parameter_values"}, 0, "p1", FALSE,
                    <<>>, "")

Det == DetailData({}, "n1", FALSE)
DetOff == DetailData({"is_active"}, "n2", FALSE)

\* an equipment entry with the given parameter list and nothing else
EquipmentWith(parameters) ==
  EquipmentData({"equipment_name", "parameters"}, "e1", FALSE, <<>>, parameters)

EquipmentFull(parameters) ==
  EquipmentData({"equipment_name", "is_active", "equipment_details", "parameters"},
                "e2", FALSE, <<Det>>, parameters)

DepartmentWith(equipments) ==
  DepartmentData({"name", "equipments"}, "d1", FALSE, equipments)

DepartmentOff(equipments) ==
  DepartmentData({"name", "is_active", "equipments"}, "d2", FALSE, equipments)

ClinicNames == {"c1"}

DepartmentLists ==
  { <<>>,
    <<DepartmentData({"name"}, "d1", FALSE, <<>>)>>,
    <<DepartmentWith(<<EquipmentWith(<<PV>>)>>)>>,
    <<DepartmentWith(<<EquipmentFull(<<PF>>)>>)>>,
    <<DepartmentWith(<<EquipmentWith(<<PN>>)>>)>>,
    <<DepartmentWith(<<EquipmentFull(<<PV, PN>>)>>)>>,
    <<DepartmentWith(<<EquipmentWith(<<PV>>), EquipmentWith(<<PE>>)>>)>>,
    <<DepartmentWith(<<EquipmentWith(<<PV>>)>>),
      DepartmentWith(<<EquipmentWith(<<PN>>)>>)>>,
    <<DepartmentOff(<<EquipmentWith(<<PEF>>)>>),
      DepartmentWith(<<EquipmentWith(<<PB>>)>>)>> }

ClinicPayloads ==
  {ClinicData({"name", "department"}, n, ds) :
     n \in ClinicNames, ds \in DepartmentLists}
  \cup {ClinicData({"name"}, "c2", <<>>),
        ClinicData({"department"}, "", <<>>),
        ClinicData({"name", "department"}, "c1",
          <<DepartmentWith(<<EquipmentData({"parameters"}, "", FALSE, <<>>,
                                           <<PV>>)>>)>>)}

ClinicIds == 1..MaxClinicId

(***************************************************************************)
(* The clinic endpoints, from an empty store.                              *)
(***************************************************************************)
NoRequest ==
  [op |-> "none", clinic_id |-> 0, department_id |-> 0, equipment_id |-> 0,
   payload |-> NoPayload, status |-> 0, err |-> {}, body |-> NoBody,
   again |-> FALSE, undone |-> 0, removed |-> 0]

\* no handler is in the middle of a request
Idle == [op |-> "none"]

Clients == 1..MaxClients

InitClinic ==
  /\ db = EmptyDb
  /\ last = NoRequest
  /\ pending = [c \in Clients |-> Idle]

\* the response leaves the server
Deliver ==
  /\ last # NoRequest
  /\ last' = NoRequest
  /\ db' = db
  /\ UNCHANGED pending

ClinicRequest ==
  \/ \E data \in ClinicPayloads : ClinicCreateAPIView_post(data)
  \/ \E clinic_id \in ClinicIds, data \in ClinicPayloads :
        ClinicUpdateAPIView_put(clinic_id, data)
  \/ \E clinic_id \in ClinicIds : GetClinicView_get(clinic_id)

\* the client sends the clinic update it has just been answered once more
Resend ==
  /\ last.op = "ClinicUpdate"
  /\ last.status = 200
  /\ ClinicUpdateAPIView_put(last.clinic_id, last.payload)

NextClinic ==
  \/ last = NoRequest /\ ClinicRequest /\ UNCHANGED pending
  \/ Resend /\ UNCHANGED pending
  \/ Deliver

SpecClinic == InitClinic /\ [][NextClinic]_vars

(***************************************************************************)
(* The equipment endpoints, from the store that POST /api/clinics leaves   *)
(* for one clinic with two departments and no equipment.                   *)
(***************************************************************************)
\* parameter entries of an update
UP(id, parameter_values) ==
  ParameterData({"id", "parameter_name", "is_active", "parameter_values"}, id,
                "p9", FALSE, parameter_values, "")

UPNoId(parameter_values) ==
  ParameterData({"parameter_name", "parameter_values"}, 0, "p9", FALSE,
                parameter_values, "")

UPBare(id, parameter_values) ==
  ParameterData({"id", "parameter_values"}, id, "", FALSE, parameter_values, "")

V1 == <<ValueData("v1")>>
V2 == <<ValueData("v2")>>
V12 == <<ValueData("v1"), ValueData("v2")>>

UpdateWith(parameters) ==
  EquipmentData({"equipment_name", "parameters"}, "e1", FALSE, <<>>, parameters)

UpdateFull(parameters) ==
  EquipmentData({"equipment_name", "is_active", "equipment_details", "parameters"},
                "e2", FALSE, <<DetOff>>, parameters)

EquipmentCreatePayloads ==
  { EquipmentWith(<<PF>>),
    EquipmentWith(<<PV, PEF>>),
    EquipmentWith(<<PN>>),
    EquipmentFull(<<PV, PN>>),
    EquipmentData({"parameters"}, "", FALSE, <<>>, <<PN>>) }

EquipmentUpdatePayloads ==
  { EquipmentData({"equipment_name"}, "e2", FALSE, <<>>, <<>>),
    EquipmentData({"is_active"}, "", FALSE, <<>>, <<>>),
    EquipmentData({"parameters"}, "", FALSE, <<>>, <<UPBare(1, <<>>)>>),
    UpdateWith(<<UP(1, V1)>>),
    UpdateWith(<<UP(2, V2)>>),
    UpdateWith(<<UP(1, <<>>)>>),
    UpdateWith(<<UPNoId(V1)>>),
    UpdateWith(<<UP(0, V1)>>),
    UpdateWith(<<UP(1, V12)>>),
    UpdateWith(<<UP(1, <<>>), UPNoId(V1)>>),
    UpdateWith(<<UP(1, V1), UP(1, <<>>)>>),
    UpdateFull(<<UP(1, V2), UP(2, V1)>>) }

InitEquipment ==
  /\ db = ClinicSerializer_create(EmptyDb,
            ClinicData({"name", "department"}, "c1",
               <<DepartmentData({"name"}, "d1", FALSE, <<>>),
                 DepartmentData({"name"}, "d2", FALSE, <<>>)>>)).db
  /\ last = NoRequest
  /\ pending = [c \in Clients |-> Idle]

EquipmentRequest ==
  \/ \E department_id \in 1..3, data \in EquipmentCreatePayloads :
        DepartmentEquipmentCreateAPIView_post(department_id, data)
  \/ \E department_id \in 1..2, equipment_id \in 1..MaxEquipments,
        data \in EquipmentUpdatePayloads :
        DepartmentEquipmentUpdateAPIView_put(department_id, equipment_id, data)

NextEquipment ==
  \/ /\ last = NoRequest
     /\ EquipmentRequest
     /\ db'.seq["equipments"] <= MaxEquipments + 1
     /\ UNCHANGED pending
  \/ Deliver

SpecEquipment == InitEquipment /\ [][NextEquipment]_vars

(***************************************************************************)
(* Equipment updates that append details, from the same store.             *)
(***************************************************************************)
DetailCreatePayloads ==
  { EquipmentWith(<<PV, PEF>>),
    EquipmentFull(<<PF>>) }

DetailUpdatePayloads ==
  { EquipmentData({"equipment_name", "equipment_details"}, "e1", FALSE,
                  <<DetOff>>, <<>>),
    EquipmentData({"equipment_name", "equipment_details"}, "e2", FALSE,
                  <<Det, Det>>, <<>>),
    EquipmentData({"equipment_name", "is_active"}, "e2", FALSE, <<>>, <<>>),
    UpdateFull(<<UP(1, V2), UP(2, V1)>>),
    UpdateFull(<<UP(1, V1)>>),
    UpdateFull(<<UP(1, V1), UP(1, <<>>)>>),
    UpdateFull(<<UPNoId(V1)>>) }

DetailRequest ==
  \/ \E department_id \in 1..2, data \in DetailCreatePayloads :
        DepartmentEquipmentCreateAPIView_post(department_id, data)
  \/ \E department_id \in 1..2, equipment_id \in 1..MaxEquipments,
        data \in DetailUpdatePayloads :
        DepartmentEquipmentUpdateAPIView_put(department_id, equipment_id, data)

NextDetails ==
  \/ /\ last = NoRequest
     /\ DetailRequest
     /\ db'.seq["equipments"] <= MaxEquipments + 1
     /\ UNCHANGED pending
  \/ Deliver

SpecDetails == InitEquipment /\ [][NextDetails]_vars

(***************************************************************************)
(* The flags of an equipment row: create, update of the scalar fields,     *)
(* inactivate, soft delete, and the clinic read, from the same store.      *)
(***************************************************************************)
FlagCreatePayloads ==
  { EquipmentFull(<<PF>>),
    EquipmentWith(<<PV>>) }

FlagUpdatePayloads ==
  { EquipmentData({"equipment_name", "is_active"}, "e1", TRUE, <<>>, <<>>),
    EquipmentData({"equipment_name"}, "e2", FALSE, <<>>, <<>>) }

FlagRequest ==
  \/ \E department_id \in 1..2, data \in FlagCreatePayloads :
        DepartmentEquipmentCreateAPIView_post(department_id, data)
  \/ \E department_id \in 1..2, equipment_id \in 1..MaxEquipments,
        data \in FlagUpdatePayloads :
        DepartmentEquipmentUpdateAPIView_put(department_id, equipment_id, data)
  \/ \E department_id \in 1..2, equipment_id \in 1..MaxEquipments :
        EquipmentInactiveAPIView_patch(department_id, equipment_id)
  \/ \E department_id \in 1..2, equipment_id \in 1..MaxEquipments :
        EquipmentSoftDeleteAPIView_patch(department_id, equipment_id)
  \/ \E department_id \in 1..2, equipment_id \in 1..MaxEquipments :
        EquipmentSoftDeleteAPIView_delete(department_id, equipment_id)
  \/ \E clinic_id \in ClinicIds : GetClinicView_get(clinic_id)

NextFlags ==
  \/ /\ last = NoRequest
     /\ FlagRequest
     /\ db'.seq["equipments"] <= MaxEquipments + 1
     /\ UNCHANGED pending
  \/ Deliver

SpecFlags == InitEquipment /\ [][NextFlags]_vars

(***************************************************************************)
(* Every endpoint that takes an id, served one request at a time, from the *)
(* same store.                                                             *)
(***************************************************************************)
ServiceClinicPayloads ==
  { ClinicData({"name"}, "c2", <<>>),
    ClinicData({"department"}, "", <<>>),
    ClinicData({"name", "department"}, "c1",
               <<DepartmentWith(<<EquipmentWith(<<PV>>)>>)>>),
    ClinicData({"name", "department"}, "c1",
               <<DepartmentWith(<<EquipmentWith(<<PN>>)>>)>>) }

ServiceCreatePayloads ==
  { EquipmentFull(<<PF>>),
    EquipmentWith(<<PN>>),
    EquipmentData({"parameters"}, "", FALSE, <<>>, <<PV>>) }

ServiceUpdatePayloads ==
  { EquipmentData({"equipment_name", "is_active"}, "e1", TRUE, <<>>, <<>>),
    EquipmentData({"is_active"}, "", FALSE, <<>>, <<>>),
    UpdateWith(<<UP(1, V1)>>),
    UpdateFull(<<UPNoId(V1)>>) }

ServiceRequest ==
  \/ \E clinic_id \in ClinicIds, data \in ServiceClinicPayloads :
        ClinicUpdateAPIView_put(clinic_id, data)
  \/ \E clinic_id \in ClinicIds : GetClinicView_get(clinic_id)
  \/ \E department_id \in 1..MaxDepartmentId, data \in ServiceCreatePayloads :
        DepartmentEquipmentCreateAPIView_post(department_id, data)
  \/ \E department_id \in 1..MaxDepartmentId, equipment_id \in 1..MaxEquipments,
        data \in ServiceUpdatePayloads :
        DepartmentEquipmentUpdateAPIView_put(department_id, equipment_id, data)
  \/ \E department_id \in 1..MaxDepartmentId, equipment_id \in 1..MaxEquipments :
        EquipmentInactiveAPIView_patch(department_id, equipment_id)
  \/ \E department_id \in 1..MaxDepartmentId, equipment_id \in 1..MaxEquipments :
        EquipmentSoftDeleteAPIView_patch(department_id, equipment_id)
  \/ \E department_id \in 1..MaxDepartmentId, equipment_id \in 1..MaxEquipments :
        EquipmentSoftDeleteAPIView_delete(department_id, equipment_id)

NextService ==
  \/ /\ last = NoRequest
     /\ ServiceRequest
     /\ db'.seq["equipments"] <= MaxEquipments + 1
     /\ UNCHANGED pending
  \/ Deliver

SpecService == InitEquipment /\ [][NextService]_vars

(***************************************************************************)
(* Requests in flight at the same time.  A handler's lookup                *)
(* (Equipments.objects.get) is a statement of its own, outside the         *)
(* @transaction.atomic block of the serializer and, for the two PATCH      *)
(* handlers, outside any block: it commits by itself, and the requests of  *)
(* other clients can be served before the handler goes on to save the      *)
(* instance it holds in memory.                                            *)
(***************************************************************************)
ConcurrentUpdatePayloads ==
  { EquipmentData({"equipment_name", "is_active"}, "e2", TRUE, <<>>, <<>>),
    UpdateWith(<<UP(1, V1)>>) }

InitConcurrent ==
  /\ db = ClinicSerializer_create(EmptyDb,
            ClinicData({"name", "department"}, "c1",
               <<DepartmentWith(<<EquipmentWith(<<PV>>)>>)>>)).db
  /\ last = NoRequest
  /\ pending = [c \in Clients |-> Idle]

\* the handler of client c has looked the row up and holds it
Holding(c, req, instance) ==
  /\ pending' = [pending EXCEPT ![c] =
                   [op |-> req.op, req |-> req, instance |-> instance]]
  /\ UNCHANGED <<db, last>>

\* PUT: equipment = Equipments.objects.get(id=equipment_id, dep_id=department_id)
DepartmentEquipmentUpdateAPIView_put_get(c, department_id, equipment_id, data) ==
  LET req == Request("EquipmentUpdate", 0, department_id, equipment_id, data)
      found == Equipments_objects_get(db, equipment_id, department_id)
  IN /\ pending[c] = Idle
     /\ IF found = {} THEN NotFound(req) /\ UNCHANGED pending
        ELSE Holding(c, req, CHOOSE e \in found : TRUE)

\* PATCH inactive: the lookup
EquipmentInactiveAPIView_patch_get(c, department_id, equipment_id) ==
  LET req == Request("EquipmentInactive", 0, department_id, equipment_id,
                     NoPayload)
      found == Equipments_objects_get(db, equipment_id, department_id)
  IN /\ pending[c] = Idle
     /\ IF found = {} THEN NotFound(req) /\ UNCHANGED pending
        ELSE Holding(c, req, CHOOSE e \in found : TRUE)

\* PATCH or DELETE delete: the lookup
EquipmentSoftDeleteAPIView_patch_get(c, department_id, equipment_id) ==
  LET req == Request("EquipmentSoftDelete", 0, department_id, equipment_id,
                     NoPayload)
      found == Equipments_objects_get_undeleted(db, equipment_id, department_id)
  IN /\ pending[c] = Idle
     /\ IF found = {} THEN NotFound(req) /\ UNCHANGED pending
        ELSE Holding(c, req, CHOOSE e \in found : TRUE)

\* the handler of client c goes on after its lookup: it writes the instance
\* it holds and answers
Proceed(c) ==
  /\ pending[c] # Idle
  /\ pending' = [pending EXCEPT ![c] = Idle]
  /\ LET req == pending[c].req
         instance == pending[c].instance
     IN CASE req.op = "EquipmentUpdate" ->
               DepartmentEquipmentUpdateAPIView_put_save(req, instance)
          [] req.op = "EquipmentInactive" ->
               EquipmentInactiveAPIView_patch_save(req, instance)
          [] req.op = "EquipmentSoftDelete" ->
               EquipmentSoftDeleteAPIView_patch_save(req, instance)

NextConcurrent ==
  \/ /\ last = NoRequest
     /\ \E c \in Clients, equipment_id \in 1..2, data \in ConcurrentUpdatePayloads :
           DepartmentEquipmentUpdateAPIView_put_get(c, 1, equipment_id, data)
  \/ /\ last = NoRequest
     /\ \E c \in Clients, equipment_id \in 1..2 :
           EquipmentInactiveAPIView_patch_get(c, 1, equipment_id)
  \/ /\ last = NoRequest
     /\ \E c \in Clients, equipment_id \in 1..2 :
           EquipmentSoftDeleteAPIView_patch_get(c, 1, equipment_id)
  \/ /\ last = NoRequest
     /\ \E c \in Clients : Proceed(c)
  \/ Deliver

SpecConcurrent == InitConcurrent /\ [][NextConcurrent]_vars

(***************************************************************************)
(* Two clinics, each with a department and an equipment below it, and the  *)
(* endpoints that write below a clinic.                                    *)
(***************************************************************************)
TwoClinicPayloads ==
  { ClinicData({"name"}, "c2", <<>>),
    ClinicData({"name", "department"}, "c1",
               <<DepartmentWith(<<EquipmentWith(<<PV>>)>>)>>),
    ClinicData({"name", "department"}, "c1",
               <<DepartmentWith(<<EquipmentWith(<<PV>>), EquipmentWith(<<PN>>)>>)>>) }

TwoClinicCreatePayloads ==
  { EquipmentWith(<<PF>>),
    EquipmentFull(<<PV, PN>>) }

TwoClinicUpdatePayloads ==
  { EquipmentData({"equipment_name", "is_active"}, "e2", FALSE, <<>>, <<>>),
    UpdateFull(<<UP(1, V1)>>),
    UpdateFull(<<UP(1, V1), UPNoId(V2)>>) }

InitTwoClinics ==
  /\ db = ClinicSerializer_create(
            ClinicSerializer_create(EmptyDb,
              ClinicData({"name", "department"}, "c1",
                 <<DepartmentWith(<<EquipmentWith(<<PV>>)>>)>>)).db,
            ClinicData({"name", "department"}, "c2",
               <<DepartmentOff(<<EquipmentFull(<<PF>>)>>)>>)).db
  /\ last = NoRequest
  /\ pending = [c \in Clients |-> Idle]

TwoClinicRequest ==
  \/ \E clinic_id \in ClinicIds, data \in TwoClinicPayloads :
        ClinicUpdateAPIView_put(clinic_id, data)
  \/ \E clinic_id \in ClinicIds : GetClinicView_get(clinic_id)
  \/ \E department_id \in 1..MaxDepartmentId, data \in TwoClinicCreatePayloads :
        DepartmentEquipmentCreateAPIView_post(department_id, data)
  \/ \E department_id \in 1..MaxDepartmentId, equipment_id \in 1..MaxEquipmentId,
        data \in TwoClinicUpdatePayloads :
        DepartmentEquipmentUpdateAPIView_put(department_id, equipment_id, data)
  \/ \E department_id \in 1..MaxDepartmentId, equipment_id \in 1..MaxEquipmentId :
        EquipmentInactiveAPIView_patch(department_id, equipment_id)
  \/ \E department_id \in 1..MaxDepartmentId, equipment_id \in 1..MaxEquipmentId :
        EquipmentSoftDeleteAPIView_patch(department_id, equipment_id)

NextTwoClinics ==
  \/ /\ last = NoRequest
     /\ TwoClinicRequest
     /\ UNCHANGED pending
  \/ Deliver

SpecTwoClinics == InitTwoClinics /\ [][NextTwoClinics]_vars

(***************************************************************************)
(* What the claims speak of: the parts of a request body, and the subtree  *)
(* of a clinic in the store.                                               *)
(***************************************************************************)
\* a parameter entry with neither a non-empty parameter_values list nor format
Malformed(q) ==
  /\ ~("format" \in q.keys)
  /\ \/ ~("parameter_values" \in q.keys)
     \/ q.parameter_values = <<>>

\* a parameter entry with a format field and no, or an empty, value list
AliasOnly(q) ==
  /\ "format" \in q.keys
  /\ \/ ~("parameter_values" \in q.keys)
     \/ q.parameter_values = <<>>

EquipmentMalformedAt(e) ==
  IF "parameters" \in e.keys
  THEN {i \in 1..Len(e.parameters) : Malformed(e.parameters[i])}
  ELSE {}

PayloadEquipments(c) ==
  IF "department" \in c.keys
  THEN UNION {IF "equipments" \in x.keys THEN Range(x.equipments) ELSE {} :
                x \in Range(c.department)}
  ELSE {}

ClinicMalformed(c) == \E e \in PayloadEquipments(c) : EquipmentMalformedAt(e) # {}

DepartmentsOf(d, clinic_id) == {x \in d.department : x.clinic = clinic_id}
EquipmentsOf(d, deps) == {e \in d.equipments : e.dep \in {x.id : x \in deps}}
DetailsOf(d, eqs) == {x \in d.details : x.equipment \in {e.id : e \in eqs}}
ParametersOf(d, eqs) == {p \in d.parameters : p.equipment \in {e.id : e \in eqs}}
ValuesOf(d, pars) == {v \in d.values : v.parameter \in {p.id : p \in pars}}

Ids(S) == {x.id : x \in S}

\* the subtree below a clinic, ids left out, children in insertion order
ValueContent(d, v) == [content |-> v.content, is_deleted |-> v.is_deleted]

ParameterContent(d, p) ==
  LET val(v) == ValueContent(d, v)
  IN [parameter_name |-> p.parameter_name, is_active |-> p.is_active,
      parameter_values |-> Map(val, ById(ValuesOf(d, {p})))]

DetailContent(d, x) ==
  [equipment_num |-> x.equipment_num, make |-> x.make, model |-> x.model,
   is_active |-> x.is_active]

EquipmentContent(d, e) ==
  LET det(x) == DetailContent(d, x)
      par(p) == ParameterContent(d, p)
  IN [equipment_name |-> e.equipment_name, is_active |-> e.is_active,
      is_deleted |-> e.is_deleted,
      equipment_details |-> Map(det, ById(DetailsOf(d, {e}))),
      parameters |-> Map(par, ById(ParametersOf(d, {e})))]

DepartmentContent(d, x) ==
  LET eq(e) == EquipmentContent(d, e)
  IN [name |-> x.name, is_active |-> x.is_active,
      equipments |-> Map(eq, ById(EquipmentsOf(d, {x})))]

ClinicContent(d, clinic_id) ==
  LET dep(x) == DepartmentContent(d, x)
  IN Map(dep, ById(DepartmentsOf(d, clinic_id)))

\* the subtree a request body describes
Flag(x) == IF "is_active" \in x.keys THEN x.is_active ELSE TRUE

DescribedValues(q) ==
  IF AliasOnly(q) THEN <<[content |-> q.format, is_deleted |-> FALSE]>>
  ELSE [i \in 1..Len(q.parameter_values) |->
          [content |-> q.parameter_values[i].content, is_deleted |-> FALSE]]

DescribedParameter(q) ==
  [parameter_name |-> q.parameter_name, is_active |-> Flag(q),
   parameter_values |-> DescribedValues(q)]

DescribedDetail(x) ==
  [equipment_num |-> x.equipment_num, make |-> x.make, model |-> x.model,
   is_active |-> Flag(x)]

DescribedEquipment(e) ==
  [equipment_name |-> e.equipment_name, is_active |-> Flag(e),
   is_deleted |-> FALSE,
   equipment_details |->
      IF "equipment_details" \in e.keys
      THEN Map(DescribedDetail, e.equipment_details) ELSE <<>>,
   parameters |->
      IF "parameters" \in e.keys
      THEN Map(DescribedParameter, e.parameters) ELSE <<>>]

DescribedDepartment(x) ==
  [name |-> x.name, is_active |-> Flag(x),
   equipments |->
      IF "equipments" \in x.keys
      THEN Map(DescribedEquipment, x.equipments) ELSE <<>>]

DescribedClinic(c) ==
  IF "department" \in c.keys
  THEN Map(DescribedDepartment, c.department) ELSE <<>>

\* every row below the clinic in store d
SubtreeIds(d, clinic_id) ==
  LET deps == DepartmentsOf(d, clinic_id)
      eqs == EquipmentsOf(d, deps)
      pars == ParametersOf(d, eqs)
  IN [department |-> Ids(deps), equipments |-> Ids(eqs),
      details |-> Ids(DetailsOf(d, eqs)), parameters |-> Ids(pars),
      values |-> Ids(ValuesOf(d, pars))]

ChildTables == {"department", "equipments", "details", "parameters", "values"}

(***************************************************************************)
(* C1  Clinic create is atomic: a create whose body holds a malformed      *)
(* parameter anywhere answers 400 and leaves every table as it was.        *)
(***************************************************************************)
C1_ClinicCreateAtomic ==
  [][(last'.op = "ClinicCreate" /\ ClinicMalformed(last'.payload))
       => (last'.status = 400 /\ Rows(db') = Rows(db))]_vars

\* a create was rejected in its second department, after the clinic, two
\* departments, an equipment with parameter and value, and the failing
\* equipment had been inserted: the store is empty again
C1_Witness ==
  /\ last.op = "ClinicCreate"
  /\ last.status = 400
  /\ last.err = {"parameter_values"}
  /\ ClinicMalformed(last.payload)
  /\ Len(last.payload.department) = 2
  /\ db = EmptyDb
  /\ last.undone >= 6

(***************************************************************************)
(* C4  Clinic update replaces: after a successful update the clinic owns   *)
(* exactly the departments the body describes, and no row that was below   *)
(* the clinic before the update is left in any table.                      *)
(***************************************************************************)
C4_FullReplace ==
  [][(last'.op = "ClinicUpdate" /\ last'.status = 200)
       => /\ ClinicContent(db', last'.clinic_id) = DescribedClinic(last'.payload)
          /\ \A t \in ChildTables :
                SubtreeIds(db, last'.clinic_id)[t] \cap Ids(db'[t]) = {}]_vars

\* an update replaced a clinic that had departments by a body with one
\* department: the old ids are gone
C4_Witness ==
  /\ last.op = "ClinicUpdate"
  /\ last.status = 200
  /\ Len(last.payload.department) = 1
  /\ Len(last.payload.department[1].equipments) = 1
  /\ Cardinality(DepartmentsOf(db, last.clinic_id)) = 1
  /\ \E x \in DepartmentsOf(db, last.clinic_id) : x.id >= 3
  /\ \A e \in db.equipments : e.id >= 2
  /\ db.values # {}

(***************************************************************************)
(* C5  The same clinic update twice in a row: the second leaves the same   *)
(* content and the same numbers of departments and equipment as the first, *)
(* under department and equipment ids that are all new.                    *)
(***************************************************************************)
C5_ReplaceTwice ==
  [][(last'.op = "ClinicUpdate" /\ last'.status = 200 /\ last'.again)
       => LET c == last'.clinic_id
              before == DepartmentsOf(db, c)
              after == DepartmentsOf(db', c)
          IN /\ Cardinality(after) = Cardinality(before)
             /\ Cardinality(EquipmentsOf(db', after))
                  = Cardinality(EquipmentsOf(db, before))
             /\ ClinicContent(db', c) = ClinicContent(db, c)
             /\ Ids(after) \cap Ids(before) = {}
             /\ Ids(EquipmentsOf(db', after))
                  \cap Ids(EquipmentsOf(db, before)) = {}]_vars

C5_Witness ==
  /\ last.op = "ClinicUpdate"
  /\ last.status = 200
  /\ last.again
  /\ DepartmentsOf(db, last.clinic_id) # {}
  /\ EquipmentsOf(db, DepartmentsOf(db, last.clinic_id)) # {}

(***************************************************************************)
(* What the equipment claims speak of.                                     *)
(***************************************************************************)
\* the request addresses an equipment row of the stated department
Addressed(d, r) ==
  \E e \in d.equipments : e.id = r.equipment_id /\ e.dep = r.department_id

PayloadParameters(e) == IF "parameters" \in e.keys THEN e.parameters ELSE <<>>

\* the entry names no parameter of the equipment: no id, or an id that is
\* not the id of one of its parameters
Unresolvable(d, equipment_id, q) ==
  \/ ~("id" \in q.keys)
  \/ ~\E p \in d.parameters : p.id = q.id /\ p.equipment = equipment_id

EmptyValues(q) ==
  \/ ~("parameter_values" \in q.keys)
  \/ q.parameter_values = <<>>

RECURSIVE SuppliedFrom(_, _, _)
\* the number of values the entries from position i on supply for parameter id
SuppliedFrom(entries, id, i) ==
  IF i > Len(entries) THEN 0
  ELSE (IF "id" \in entries[i].keys /\ entries[i].id = id
           /\ "parameter_values" \in entries[i].keys
        THEN Len(entries[i].parameter_values) ELSE 0)
       + SuppliedFrom(entries, id, i + 1)

Supplied(e, id) == SuppliedFrom(PayloadParameters(e), id, 1)

ValuesOfParameter(d, id) == {v \in d.values : v.parameter = id}

(***************************************************************************)
(* C2  Values are appended: a successful equipment update that supplies k  *)
(* values for a parameter of the equipment leaves that parameter with k    *)
(* more value rows, and every value row of before is still there as it was.*)
(***************************************************************************)
C2_AppendOnly ==
  [][(last'.op = "EquipmentUpdate" /\ last'.status = 200)
       => /\ db.values \subseteq db'.values
          /\ \A p \in db.parameters :
                p.equipment = last'.equipment_id
                  => Cardinality(ValuesOfParameter(db', p.id))
                       = Cardinality(ValuesOfParameter(db, p.id))
                           + Supplied(last'.payload, p.id)]_vars

\* the second of two updates that each added one value to parameter 1,
\* which its create had given one value
C2_Witness ==
  /\ last.op = "EquipmentUpdate"
  /\ last.status = 200
  /\ Supplied(last.payload, 1) = 1
  /\ Cardinality(ValuesOfParameter(db, 1)) = 3

(***************************************************************************)
(* C3  (as claimed)  An update with a parameter entry that names no         *)
(* parameter of the equipment is rejected with an error keyed parameter_id *)
(* and the store is unchanged.                                             *)
(***************************************************************************)
C3_Original ==
  [][(/\ last'.op = "EquipmentUpdate"
      /\ Addressed(db, last')
      /\ EquipmentErrors(last'.payload, FALSE) = {}
      /\ \E q \in Range(PayloadParameters(last'.payload)) :
            Unresolvable(db, last'.equipment_id, q))
       => /\ last'.status = 400
          /\ last'.err = {"parameter_id"}
          /\ Rows(db') = Rows(db)]_vars

\* the first entry of the body that the update rejects
FirstRejected(d, equipment_id, entries) ==
  LET bad == {i \in 1..Len(entries) :
                Unresolvable(d, equipment_id, entries[i]) \/ EmptyValues(entries[i])}
  IN CHOOSE i \in bad : \A j \in bad : i <= j

(***************************************************************************)
(* C3  (amended)  Such an update is rejected with status 400 and the store *)
(* is unchanged; the error is keyed parameter_id unless an earlier entry   *)
(* names a parameter of the equipment with an empty value list, and then   *)
(* it is keyed parameter_values.                                           *)
(***************************************************************************)
C3_IdResolution ==
  [][(/\ last'.op = "EquipmentUpdate"
      /\ Addressed(db, last')
      /\ EquipmentErrors(last'.payload, FALSE) = {}
      /\ \E q \in Range(PayloadParameters(last'.payload)) :
            Unresolvable(db, last'.equipment_id, q))
       => LET entries == PayloadParameters(last'.payload)
              first == entries[FirstRejected(db, last'.equipment_id, entries)]
          IN /\ last'.status = 400
             /\ Rows(db') = Rows(db)
             /\ last'.err = IF Unresolvable(db, last'.equipment_id, first)
                            THEN {"parameter_id"} ELSE {"parameter_values"}]_vars

\* an update of one equipment was rejected for naming the parameter of the
\* other equipment
C3_Witness ==
  /\ last.op = "EquipmentUpdate"
  /\ last.status = 400
  /\ last.err = {"parameter_id"}
  /\ \E q \in Range(PayloadParameters(last.payload)) :
        /\ "id" \in q.keys
        /\ \E p \in db.parameters : p.id = q.id /\ p.equipment # last.equipment_id
  /\ Addressed(db, last)

(***************************************************************************)
(* C7  PUT with the body {parameters: [{id, parameter_values: []}]}, id    *)
(* being a parameter of the equipment, answers 400 with an error that      *)
(* names parameter_values, and the store is unchanged.                     *)
(***************************************************************************)
C7_EmptyValuesPut ==
  [][(/\ last'.op = "EquipmentUpdate"
      /\ Addressed(db, last')
      /\ last'.payload.keys = {"parameters"}
      /\ Len(last'.payload.parameters) = 1
      /\ last'.payload.parameters[1].keys = {"id", "parameter_values"}
      /\ last'.payload.parameters[1].parameter_values = <<>>
      /\ ~Unresolvable(db, last'.equipment_id, last'.payload.parameters[1]))
       => /\ last'.status = 400
          /\ "parameter_values" \in last'.err
          /\ Rows(db') = Rows(db)]_vars

(***************************************************************************)
(* C8  POST of an equipment whose one parameter carries only format, under *)
(* an existing department, answers 201 with a body that holds one          *)
(* parameter with one value whose content is the format value.             *)
(***************************************************************************)
C8_CreateResponse ==
  (/\ last.op = "EquipmentCreate"
   /\ \E x \in db.department : x.id = last.department_id
   /\ last.payload.keys = {"equipment_name", "parameters"}
   /\ Len(last.payload.parameters) = 1
   /\ last.payload.parameters[1].keys = {"parameter_name", "format"})
    => /\ last.status = 201
       /\ "parameters" \in last.body.keys
       /\ Len(last.body.parameters) = 1
       /\ Len(last.body.parameters[1].parameter_values) = 1
       /\ last.body.parameters[1].parameter_values[1].content
            = last.payload.parameters[1].format

(***************************************************************************)
(* C9  The format alias on equipment create: a successful create stores    *)
(* one equipment row, bound to the department of the request, and one      *)
(* parameter row per entry; an entry with format and no, or an empty,      *)
(* value list gets exactly one value row, whose content is the format.     *)
(***************************************************************************)
C9_FormatAlias ==
  [][(last'.op = "EquipmentCreate" /\ last'.status = 201)
       => LET created == db'.equipments \ db.equipments
              entries == PayloadParameters(last'.payload)
              pars == ById(db'.parameters \ db.parameters)
          IN /\ Cardinality(created) = 1
             /\ \A e \in created : e.dep = last'.department_id
             /\ Len(pars) = Len(entries)
             /\ \A i \in 1..Len(entries) :
                   /\ pars[i].equipment \in Ids(created)
                   /\ AliasOnly(entries[i])
                        => \E v \in db'.values :
                              /\ ValuesOfParameter(db', pars[i].id) = {v}
                              /\ v.content = entries[i].format]_vars

\* created under department 2 from a body whose second parameter has an
\* empty value list and a format
C9_Witness ==
  /\ last.op = "EquipmentCreate"
  /\ last.status = 201
  /\ last.department_id = 2
  /\ Len(last.payload.parameters) = 2
  /\ AliasOnly(last.payload.parameters[2])
  /\ "parameter_values" \in last.payload.parameters[2].keys
  /\ \E e \in db.equipments : e.dep = 2
  /\ \E v \in db.values : v.content = "v2"

(***************************************************************************)
(* C10  Equipment create rejects a parameter without values: the create    *)
(* fails with an error keyed parameter_values and none of its rows stay,   *)
(* the equipment row and its details included.                             *)
(***************************************************************************)
C10_CreateRejects ==
  [][(/\ last'.op = "EquipmentCreate"
      /\ \E x \in db.department : x.id = last'.department_id
      /\ EquipmentErrors(last'.payload, FALSE) = {}
      /\ EquipmentMalformedAt(last'.payload) # {})
       => /\ last'.status = 400
          /\ last'.err = {"parameter_values"}
          /\ Rows(db') = Rows(db)]_vars

\* rejected at the second parameter, after the equipment row, a detail, the
\* first parameter and its value had been inserted
C10_Witness ==
  /\ last.op = "EquipmentCreate"
  /\ last.status = 400
  /\ last.err = {"parameter_values"}
  /\ EquipmentMalformedAt(last.payload) = {2}
  /\ db.equipments = {} /\ db.details = {} /\ db.parameters = {}
  /\ db.values = {}
  /\ last.undone = 4

(***************************************************************************)
(* C6  Soft-delete visibility: the clinic read lists under each department *)
(* exactly its equipment rows with is_deleted = false, active or not; a    *)
(* soft delete keeps the equipment row, flagged, with its details,         *)
(* parameters and values, and takes it out of the read of its clinic.      *)
(***************************************************************************)
\* the equipment ids a department entry of a clinic read lists
Listed(entry) == {entry.equipments[i].id : i \in 1..Len(entry.equipments)}

ReadShowsUndeleted(d, view) ==
  /\ {view.department[i].id : i \in 1..Len(view.department)}
       = Ids(DepartmentsOf(d, view.id))
  /\ \A i \in 1..Len(view.department) :
        LET entry == view.department[i]
        IN /\ Listed(entry)
                = {e.id : e \in {x \in d.equipments :
                                   x.dep = entry.id /\ x.is_deleted = FALSE}}
           /\ Len(entry.equipments) = Cardinality(Listed(entry))

C6_SoftDeleteVisibility ==
  /\ [](/\ \A c \in db.clinic : ReadShowsUndeleted(db, ClinicReadSerializer(db, c))
        /\ (last.op = "GetClinic" /\ last.status = 200)
             => ReadShowsUndeleted(db, last.body))
  /\ [][(last'.op = "EquipmentSoftDelete" /\ last'.status = 200)
          => /\ \E e \in db.equipments :
                   /\ e.id = last'.equipment_id
                   /\ db'.equipments = (db.equipments \ {e})
                        \cup {[e EXCEPT !.is_deleted = TRUE, !.is_active = FALSE]}
             /\ db'.details = db.details
             /\ db'.parameters = db.parameters
             /\ db'.values = db.values
             /\ \A c \in db'.clinic :
                   LET view == ClinicReadSerializer(db', c)
                   IN \A i \in 1..Len(view.department) :
                         last'.equipment_id \notin Listed(view.department[i])]_vars

\* a clinic read that lists an inactive equipment and leaves out a
\* soft-deleted one that still has its parameter and value rows
C6_Witness ==
  /\ last.op = "GetClinic"
  /\ last.status = 200
  /\ \E e \in db.equipments :
        /\ e.is_deleted
        /\ ParametersOf(db, {e}) # {}
        /\ ValuesOf(db, ParametersOf(db, {e})) # {}
        /\ \A i \in 1..Len(last.body.department) :
              e.id \notin Listed(last.body.department[i])
  /\ \E e \in db.equipments :
        /\ ~e.is_deleted /\ ~e.is_active
        /\ \E i \in 1..Len(last.body.department) :
              e.id \in Listed(last.body.department[i])

(***************************************************************************)
(* C11  Partial update of the scalar fields: an equipment update whose     *)
(* body holds nothing but equipment_name and is_active, or one of them, or *)
(* neither, is accepted; each of the two columns takes the value of the    *)
(* body when its key is present and keeps the stored value when it is not. *)
(***************************************************************************)
C11_PartialUpdate ==
  [][(/\ last'.op = "EquipmentUpdate"
      /\ Addressed(db, last')
      /\ last'.payload.keys \subseteq {"equipment_name", "is_active"})
       => /\ last'.status = 200
          /\ \A e \in db.equipments :
                e.id = last'.equipment_id
                  => [e EXCEPT
                        !.equipment_name =
                           IF "equipment_name" \in last'.payload.keys
                           THEN last'.payload.equipment_name ELSE @,
                        !.is_active =
                           IF "is_active" \in last'.payload.keys
                           THEN last'.payload.is_active ELSE @]
                       \in db'.equipments]_vars

(***************************************************************************)
(* C12  Soft delete, by PATCH or DELETE: on an equipment row of the stated *)
(* department with is_deleted = false it answers 200 and sets is_deleted   *)
(* and clears is_active on that row, nothing else in the store changing;   *)
(* otherwise (no such row, another department, already soft-deleted) it    *)
(* answers 404 and the store is unchanged.  No request clears is_deleted,  *)
(* so a second soft delete of the same equipment answers 404.              *)
(***************************************************************************)
C12_SoftDelete ==
  /\ [][(last'.op = "EquipmentSoftDelete")
          => LET live == {e \in db.equipments :
                            /\ e.id = last'.equipment_id
                            /\ e.dep = last'.department_id
                            /\ ~e.is_deleted}
             IN IF live # {}
                THEN /\ last'.status = 200
                     /\ \E e \in live :
                           db' = [db EXCEPT !.equipments =
                                    (@ \ {e}) \cup
                                      {[e EXCEPT !.is_deleted = TRUE,
                                                 !.is_active = FALSE]}]
                ELSE /\ last'.status = 404
                     /\ db' = db]_vars
  /\ [][\A e \in db.equipments :
           e.is_deleted
             => \A x \in db'.equipments : x.id = e.id => x.is_deleted]_vars

\* a soft delete of an equipment that is soft-deleted already was answered
\* 404, another equipment being live
C12_Witness ==
  /\ last.op = "EquipmentSoftDelete"
  /\ last.status = 404
  /\ \E e \in db.equipments :
        /\ e.id = last.equipment_id
        /\ e.dep = last.department_id
        /\ e.is_deleted
        /\ ~e.is_active
  /\ \E e \in db.equipments : ~e.is_deleted

(***************************************************************************)
(* C13  NotFound precedes mutation: a clinic update or read for a clinic   *)
(* id that no clinic has, an equipment create for a department id that no  *)
(* department has, and an equipment update, inactivate or soft delete for  *)
(* an equipment id that no equipment of the stated department has, answer  *)
(* 404 and leave the store as it was, whatever the body holds.             *)
(***************************************************************************)
C13_NotFoundFirst ==
  [][(\/ /\ last'.op \in {"ClinicUpdate", "GetClinic"}
         /\ ~\E c \in db.clinic : c.id = last'.clinic_id
      \/ /\ last'.op = "EquipmentCreate"
         /\ ~\E x \in db.department : x.id = last'.department_id
      \/ /\ last'.op \in {"EquipmentUpdate", "EquipmentInactive",
                          "EquipmentSoftDelete"}
         /\ ~Addressed(db, last'))
       => /\ last'.status = 404
          /\ db' = db]_vars

\* an update with a body that would be accepted, addressed to an equipment
\* that exists under another department than the one stated, answered 404
C13_Witness ==
  /\ last.op = "EquipmentUpdate"
  /\ last.status = 404
  /\ EquipmentErrors(last.payload, FALSE) = {}
  /\ "is_active" \in last.payload.keys
  /\ \E x \in db.department : x.id = last.department_id
  /\ \E e \in db.equipments :
        /\ e.id = last.equipment_id
        /\ e.dep # last.department_id
        /\ e.is_active # last.payload.is_active

(***************************************************************************)
(* C19  Deleted implies inactive: with requests served one at a time,      *)
(* every equipment row with is_deleted = true has is_active = false.       *)
(***************************************************************************)
C19_DeletedInactive ==
  \A e \in db.equipments : e.is_deleted => ~e.is_active

(***************************************************************************)
(* C15  Clinic update is all or nothing: an update of an existing clinic   *)
(* whose body passes field validation and holds a malformed parameter      *)
(* answers 400, and the clinic row and every row below it are in the store *)
(* as before, under the same ids, although the update had deleted the      *)
(* departments before the error was raised.                                *)
(***************************************************************************)
C15_UpdateAllOrNothing ==
  [][(/\ last'.op = "ClinicUpdate"
      /\ \E c \in db.clinic : c.id = last'.clinic_id
      /\ ClinicErrors(last'.payload, FALSE) = {}
      /\ ClinicMalformed(last'.payload))
       => /\ last'.status = 400
          /\ Rows(db') = Rows(db)]_vars

\* an update was rejected after it had inserted rows of the new subtree; the
\* clinic has its departments, equipment, parameters and values
C15_Witness ==
  /\ last.op = "ClinicUpdate"
  /\ last.status = 400
  /\ last.err = {"parameter_values"}
  /\ last.undone >= 4
  /\ LET deps == DepartmentsOf(db, last.clinic_id)
         eqs == EquipmentsOf(db, deps)
     IN /\ Cardinality(deps) = 2
        /\ Cardinality(eqs) = 2
        /\ ValuesOf(db, ParametersOf(db, eqs)) # {}

(***************************************************************************)
(* C20  Clinic update without a department key: an update of an existing   *)
(* clinic whose body has a name and no department key succeeds like one    *)
(* with an empty department list; afterwards the clinic has no department  *)
(* and no row that was below it is left in any table.                      *)
(***************************************************************************)
C20_NoDepartmentKey ==
  [][(/\ last'.op = "ClinicUpdate"
      /\ \E c \in db.clinic : c.id = last'.clinic_id
      /\ "name" \in last'.payload.keys
      /\ ~("department" \in last'.payload.keys))
       => /\ last'.status = 200
          /\ DepartmentsOf(db', last'.clinic_id) = {}
          /\ last'.body.department = <<>>
          /\ \A t \in ChildTables :
                SubtreeIds(db, last'.clinic_id)[t] \cap Ids(db'[t]) = {}
          /\ \E c \in db'.clinic :
                c.id = last'.clinic_id /\ c.name = last'.payload.name]_vars

\* an update with only a name took a department, its equipment, and the
\* parameter and value below it out of the store
C20_Witness ==
  /\ last.op = "ClinicUpdate"
  /\ last.status = 200
  /\ last.payload.keys = {"name"}
  /\ last.removed >= 4
  /\ DepartmentsOf(db, last.clinic_id) = {}

C17_AdditiveBelow ==
  [][(last'.op = "EquipmentUpdate")
       => /\ db'.parameters = db.parameters
          /\ db.details \subseteq db'.details
          /\ last'.status = 200
               => LET added == db'.details \ db.details
                      n == IF "equipment_details" \in last'.payload.keys
                           THEN Len(last'.payload.equipment_details) ELSE 0
                  IN /\ Cardinality(added) = n
                     /\ \A x \in added : x.equipment = last'.equipment_id
                     /\ Ids(added) \cap Ids(db.details) = {}]_vars

\* a successful update whose entries carry another name and flag than the
\* parameters they name, and whose one detail is the second row with the
\* same content under the equipment
C17_Witness ==
  /\ last.op = "EquipmentUpdate"
  /\ last.status = 200
  /\ Len(PayloadParameters(last.payload)) = 2
  /\ \A i \in 1..2 :
        \E p \in db.parameters :
           /\ p.id = last.payload.parameters[i].id
           /\ p.equipment = last.equipment_id
           /\ p.parameter_name # last.payload.parameters[i].parameter_name
           /\ p.is_active # last.payload.parameters[i].is_active
  /\ Len(last.payload.equipment_details) = 1
  /\ \E x, y \in db.details :
        /\ x.id # y.id
        /\ x.equipment = last.equipment_id
        /\ y.equipment = last.equipment_id
        /\ DetailContent(db, x) = DetailContent(db, y)

(***************************************************************************)
(* C14  One request is one atomic unit: between a handler's lookup and its *)
(* write no write of another request takes effect, so when the handler     *)
(* writes, the row it looked up is in the store as it read it.             *)
(***************************************************************************)
C14_RequestAtomic ==
  [][\A c \in Clients :
        (pending[c] # Idle /\ pending'[c] = Idle)
          => pending[c].instance \in db.equipments]_vars

(***************************************************************************)
(* C18  Soft delete is never undone, whatever the interleaving of the      *)
(* requests in flight: an equipment row that has is_deleted = true has it  *)
(* in the next state too, as long as the row exists.                       *)
(***************************************************************************)
C18_DeleteStays ==
  [][\A e \in db.equipments :
        e.is_deleted
          => \A x \in db'.equipments : x.id = e.id => x.is_deleted]_vars

(***************************************************************************)
(* C21  Frame of clinic update and scope of hard deletion: a clinic update *)
(* leaves every other clinic's row and every row below another clinic in   *)
(* the store as it was, ids and content; and a row of the department,      *)
(* equipment, detail, parameter or value table leaves the store only in a  *)
(* clinic update: equipment create, equipment update, inactivate and soft  *)
(* delete remove no row.                                                   *)
(***************************************************************************)
\* the rows below the clinic in store d, table by table
SubtreeRows(d, clinic_id) ==
  LET deps == DepartmentsOf(d, clinic_id)
      eqs == EquipmentsOf(d, deps)
      pars == ParametersOf(d, eqs)
  IN [department |-> deps, equipments |-> eqs,
      details |-> DetailsOf(d, eqs), parameters |-> pars,
      values |-> ValuesOf(d, pars)]

C21_UpdateFrame ==
  [][/\ (last'.op = "ClinicUpdate")
          => \A c \in db.clinic :
                c.id # last'.clinic_id
                  => /\ c \in db'.clinic
                     /\ SubtreeRows(db', c.id) = SubtreeRows(db, c.id)
     /\ (\E t \in ChildTables : ~(Ids(db[t]) \subseteq Ids(db'[t])))
          => (last'.op = "ClinicUpdate" /\ last'.status = 200)
     /\ (last'.op \in {"EquipmentCreate", "EquipmentUpdate",
                       "EquipmentInactive", "EquipmentSoftDelete"})
          => \A t \in Tables : Ids(db[t]) \subseteq Ids(db'[t])]_vars

\* an update of one clinic took its department, equipment, parameter and
\* value out of the store; the other clinic has its department, equipment,
\* parameter and value
C21_Witness ==
  /\ last.op = "ClinicUpdate"
  /\ last.status = 200
  /\ last.removed >= 4
  /\ \E c \in db.clinic :
        /\ c.id # last.clinic_id
        /\ LET sub == SubtreeRows(db, c.id)
           IN /\ sub.department # {}
              /\ sub.equipments # {}
              /\ sub.parameters # {}
              /\ sub.values # {}
              /\ \A x \in sub.department : x.id <= 2

====
